---- MODULE Spec2Model ----
(***************************************************************************)
(* boost::reflect::any_ptr and the dynamic vtable it owns.                 *)
(*                                                                         *)
(* State: the any_ptr variables of a client program, the heap cells they   *)
(* point at through boost::shared_ptr (boost::any payload boxes and vtable *)
(* instances, each with its use count), and the concrete objects bound     *)
(* into the vtables.  One action per any_ptr / mirror_member operation.    *)
(***************************************************************************)
EXTENDS Integers, Sequences, FiniteSets, TLC

MaxHandles == 2          \* any_ptr variables of the client program
MaxBoxes   == 2          \* boost::any payload cells on the heap
MaxVts     == 2          \* vtable instances on the heap
StateMod   == 2          \* range of the mutable field of a concrete object

NULL == 0                \* an empty boost::shared_ptr

Handles == 1..MaxHandles
BoxIds  == 1..MaxBoxes
VtIds   == 1..MaxVts

-----------------------------------------------------------------------------
(* Interface descriptors: BOOST_REFLECT_ANY( Service,(name) ) and          *)
(* BOOST_REFLECT_ANY_DERIVED( Calculator, (Service), (add) ).              *)

Interfaces == {"Service", "Calculator"}

Base(i) == IF i = "Calculator" THEN "Service" ELSE "-"

OwnSlots(i) == IF i = "Service" THEN <<"name">>
               ELSE IF i = "Calculator" THEN <<"add">>
               ELSE <<>>

\* vtable<Calculator> : vtable<Service> -- the members of the struct.
RECURSIVE vtable_members(_)
vtable_members(i) ==
    IF i = "-" THEN {}
    ELSE vtable_members(Base(i)) \cup {OwnSlots(i)[k] : k \in 1..Len(OwnSlots(i))}

\* vtable_reflector<InterfaceType>::visit : the bases' members, then the own ones.
RECURSIVE vtable_reflector_visit(_)
vtable_reflector_visit(i) ==
    IF i = "-" THEN <<>>
    ELSE vtable_reflector_visit(Base(i)) \o OwnSlots(i)

\* The argument values a slot is called with: name() takes none, add(v) one.
Args(s) == IF s = "add" THEN {1, 2} ELSE {0}

-----------------------------------------------------------------------------
(* Concrete objects of the client: one of each class.  One of them lives   *)
(* in a boost::shared_ptr<T>, the other is handed over as a raw T* that    *)
(* the client keeps valid (any_ptr.hpp: "the pointer must be valid for the *)
(* life of all copies of the any_ptr").                                    *)

Objs == {1, 2}

\* The concrete type of each object and the members it declares.
ObjClass(o) == IF o = 2 THEN "NameOnly" ELSE "CalcImpl"

ClassMembers(c) == IF c = "CalcImpl" THEN {"name", "add"} ELSE {"name"}

\* Values returned through a slot: a string, a number, or nothing (a throw).
StrVal(s) == [t |-> "str", s |-> s, n |-> 0]
NumVal(n) == [t |-> "num", s |-> "", n |-> n]
NoVal     == [t |-> "none", s |-> "", n |-> 0]

VARIABLES
    sharedObjs,   \* the objects the client created in a shared_ptr<T>
    handles,      \* any_ptr variable -> [live, iface, m_ptr, m_vtable]
    boxes,        \* heap boost::any   -> [rc, kind, obj, iface, m_ptr, m_vtable]
    vts,          \* heap vtable       -> [rc, iface, slots]
    objRc,        \* use count of each shared object's boost::shared_ptr<T>
    objAlive,     \* the object has not been deleted
    objState,     \* the mutable field of each object
    callerShare,  \* the client still holds its own shared_ptr<T>
    last          \* what the last call returned to the client, or threw

vars == <<sharedObjs, handles, boxes, vts, objRc, objAlive, objState, callerShare, last>>

-----------------------------------------------------------------------------
(* The heap: S = [boxes, vts, objRc, objAlive].                            *)

FreeVt  == [rc |-> 0, iface |-> "-", slots |-> <<>>]
FreeBox == [rc |-> 0, kind |-> "free", obj |-> 0, iface |-> "-",
            m_ptr |-> NULL, m_vtable |-> NULL]
NoHandle == [live |-> FALSE, iface |-> "-", m_ptr |-> NULL, m_vtable |-> NULL]

Heap == [boxes |-> boxes, vts |-> vts, objRc |-> objRc, objAlive |-> objAlive]

Min(S) == CHOOSE x \in S : \A y \in S : x <= y

FreeVts(S)   == {v \in VtIds : S.vts[v].rc = 0}
FreeBoxes(S) == {b \in BoxIds : S.boxes[b].rc = 0}

\* boost::shared_ptr copy: one more owner of the cell.
add_ref_vt(S, v) ==
    IF v = NULL THEN S
    ELSE [S EXCEPT !.vts[v].rc = @ + 1]

add_ref_box(S, b) ==
    IF b = NULL THEN S
    ELSE [S EXCEPT !.boxes[b].rc = @ + 1]

add_ref_obj(S, o) == [S EXCEPT !.objRc[o] = @ + 1]

\* boost::shared_ptr destructor on a vtable: the last owner deletes it.
release_vt(S, v) ==
    IF v = NULL THEN S
    ELSE IF S.vts[v].rc > 1 THEN [S EXCEPT !.vts[v].rc = @ - 1]
    ELSE [S EXCEPT !.vts[v] = FreeVt]

\* boost::shared_ptr<T> destructor: the last owner deletes the object.
release_obj(S, o) ==
    IF S.objRc[o] > 1 THEN [S EXCEPT !.objRc[o] = @ - 1]
    ELSE [S EXCEPT !.objRc[o] = 0, !.objAlive[o] = FALSE]

\* boost::shared_ptr<boost::any> destructor: the last owner deletes the any,
\* which destroys what it holds: nothing for a T*, a shared_ptr<T>, or an
\* any_ptr (whose members go in reverse order: m_vtable, then m_ptr).
RECURSIVE release_box(_, _)
release_box(S, b) ==
    IF b = NULL THEN S
    ELSE IF S.boxes[b].rc > 1 THEN [S EXCEPT !.boxes[b].rc = @ - 1]
    ELSE LET c  == S.boxes[b]
             S1 == [S EXCEPT !.boxes[b] = FreeBox]
         IN  CASE c.kind = "shared"  -> release_obj(S1, c.obj)
               [] c.kind = "any_ptr" -> release_box(release_vt(S1, c.m_vtable), c.m_ptr)
               [] OTHER              -> S1

-----------------------------------------------------------------------------
(* mirror_member: the functor held in each vtable slot.                    *)

\* A default-constructed boost::function m_delegate.
empty_delegate == [on |-> "none", tgt |-> 0, mem |-> "-"]

\* What a set_visitor binds against: an object of a concrete class, or the
\* vtable another any_ptr dereferences to.
ObjSelf(o)    == [on |-> "obj", id |-> o, members |-> ClassMembers(ObjClass(o))]
VtSelf(v, i)  == [on |-> "vt", id |-> v, members |-> vtable_members(i)]

\* A get_member_ptr that accepts a Type without the member.
get_member_ptr_unchecked(self, m) == TRUE

\* get_member_ptr<Type>( v ) { v = &Type::elem; } is well-formed only when
\* Type declares elem.
get_member_ptr(self, m) == m \in self.members

\* A set_delegate that binds the functor found in the other vtable by value.
set_delegate_by_value(self, m) ==
    IF self.on = "vt" THEN vts[self.id].slots[m]
    ELSE [on |-> self.on, tgt |-> self.id, mem |-> m]

\* set_delegate( C* s, M m ): m_delegate = bind( m, s, ... ) -- the functor keeps
\* the pointer s and the member pointer m.
set_delegate(self, m) == [on |-> self.on, tgt |-> self.id, mem |-> m]

\* set_visitor::operator()( m, name ): assign<M> a(m_self, vtable.*m);
\* M::get_member_ptr<T>( a ) -- one slot of the vtable bound against self.
set_visitor(self, m) == set_delegate(self, m)

\* A vtable as make_shared<vtable_type>() leaves it: every functor empty.
new_vtable(i) == [m \in vtable_members(i) |-> empty_delegate]

\* A set_vtable that visits only the members the interface declares itself.
set_vtable_own_only(i, self) ==
    [m \in vtable_members(i) |->
        IF \E k \in 1..Len(OwnSlots(i)) : OwnSlots(i)[k] = m
        THEN set_visitor(self, m) ELSE empty_delegate]

\* InterfaceDelegate::set_vtable( vtable, self ): the set_visitor applied to
\* every member of the vtable.
set_vtable(i, self) == [m \in vtable_members(i) |-> set_visitor(self, m)]

\* The whole set_vtable call compiles.
binds(i, self) == \A m \in vtable_members(i) : get_member_ptr(self, m)

\* Free functions a client assigns to slots: calc.name = get_name; calc.add = do_add.
Functors(s) == IF s = "add" THEN {"do_add"} ELSE {"get_name"}

\* An assignment that resets the vtable's other functors.
mirror_member_assign_reset(slots, s, f) ==
    [m \in DOMAIN slots |->
        IF m = s THEN [on |-> "fn", tgt |-> 0, mem |-> f] ELSE empty_delegate]

\* mirror_member::operator=( const T& d ): m_delegate = adapt_void<R,T>(d).
mirror_member_assign(slots, s, f) ==
    [slots EXCEPT ![s] = [on |-> "fn", tgt |-> 0, mem |-> f]]

ObjName(o) == IF o = 1 THEN "calc one" ELSE "named two"

Threw(e) == [err |-> e, ret |-> NoVal, obj |-> 0, st |-> 0]

\* The member of the concrete object: name() is const, add(v) accumulates.
member_call(o, m, a) ==
    IF m = "name" THEN [err |-> "", ret |-> StrVal(ObjName(o)), obj |-> 0, st |-> 0]
    ELSE LET n == (objState[o] + a) % StateMod
         IN  [err |-> "", ret |-> NumVal(n), obj |-> o, st |-> n]

\* std::string get_name() { return "hello world"; }  double do_add(double v) { return v+3; }
functor_call(f, a) ==
    IF f = "get_name" THEN [err |-> "", ret |-> StrVal("hello world"), obj |-> 0, st |-> 0]
    ELSE [err |-> "", ret |-> NumVal(a + 3), obj |-> 0, st |-> 0]

\* An empty function that returns normally.
empty_call_noop(a) == [err |-> "", ret |-> NoVal, obj |-> 0, st |-> 0]

\* boost::function::operator() on an empty function throws bad_function_call.
empty_call(a) == Threw("bad_function_call")

\* mirror_member::operator()( args ): return m_delegate( make_vector(args) ).
RECURSIVE mirror_member_call(_, _, _)
mirror_member_call(v, s, a) ==
    LET d == vts[v].slots[s]
    IN  CASE d.on = "none" -> empty_call(a)
          [] d.on = "obj"  -> member_call(d.tgt, d.mem, a)
          [] d.on = "vt"   -> mirror_member_call(d.tgt, d.mem, a)
          [] OTHER         -> functor_call(d.mem, a)

-----------------------------------------------------------------------------
(* any_ptr<InterfaceType>: constructors, copy, destructor.  Each returns   *)
(* the heap it leaves and the new any_ptr's members.                       *)

Made(S, i, b, v) ==
    [heap |-> S, p |-> [live |-> TRUE, iface |-> i, m_ptr |-> b, m_vtable |-> v]]

make_shared_vtable(S, v, i, slots) ==
    [S EXCEPT !.vts[v] = [rc |-> 1, iface |-> i, slots |-> slots]]

make_shared_any(S, b, kind, o, p) ==
    [S EXCEPT !.boxes[b] = [rc |-> 1, kind |-> kind, obj |-> o, iface |-> p.iface,
                            m_ptr |-> p.m_ptr, m_vtable |-> p.m_vtable]]

\* any_ptr() : m_vtable(make_shared<vtable_type>()) {}
any_ptr_default(S, i) ==
    LET v == Min(FreeVts(S))
    IN  Made(make_shared_vtable(S, v, i, new_vtable(i)), i, NULL, v)

\* any_ptr( T* v ) : m_ptr(make_shared<any>(v)), m_vtable(make_shared<vtable_type>())
\*   { InterfaceDelegate::set_vtable(*m_vtable,*v); }
any_ptr_from_raw(S, i, o) ==
    LET b  == Min(FreeBoxes(S))
        v  == Min(FreeVts(S))
        S1 == make_shared_any(S, b, "raw", o, NoHandle)
    IN  Made(make_shared_vtable(S1, v, i, set_vtable(i, ObjSelf(o))), i, b, v)

\* A constructor whose any holds the shared_ptr without a share of its own.
any_ptr_from_shared_weak(S, i, o) ==
    LET b  == Min(FreeBoxes(S))
        v  == Min(FreeVts(S))
        S1 == make_shared_any(S, b, "shared", o, NoHandle)
    IN  Made(make_shared_vtable(S1, v, i, set_vtable(i, ObjSelf(o))), i, b, v)

\* any_ptr( const shared_ptr<T>& v ): the any holds a copy of the shared_ptr.
any_ptr_from_shared(S, i, o) ==
    LET b  == Min(FreeBoxes(S))
        v  == Min(FreeVts(S))
        S1 == make_shared_any(add_ref_obj(S, o), b, "shared", o, NoHandle)
    IN  Made(make_shared_vtable(S1, v, i, set_vtable(i, ObjSelf(o))), i, b, v)

\* operator*() { return *m_vtable; }
deref(p) == VtSelf(p.m_vtable, p.iface)

\* A converting constructor that shares p's vtable instead of building one.
any_ptr_from_any_ptr_sliced(S, i, p) ==
    LET b  == Min(FreeBoxes(S))
        S1 == make_shared_any(add_ref_vt(add_ref_box(S, p.m_ptr), p.m_vtable),
                              b, "any_ptr", 0, p)
    IN  Made(add_ref_vt(S1, p.m_vtable), i, b, p.m_vtable)

\* any_ptr( const any_ptr<OtherInterface,OtherDelegate>& p ): the any holds a
\* copy of p (a copy of both of p's shared_ptr members); the new vtable is
\* set from what that copy dereferences to.
any_ptr_from_any_ptr(S, i, p) ==
    LET b  == Min(FreeBoxes(S))
        v  == Min(FreeVts(S))
        S1 == make_shared_any(add_ref_vt(add_ref_box(S, p.m_ptr), p.m_vtable),
                              b, "any_ptr", 0, p)
    IN  Made(make_shared_vtable(S1, v, i, set_vtable(i, deref(p))), i, b, v)

\* A copy that clones the vtable when a cell is free.
any_ptr_copy_deep(S, p) ==
    IF FreeVts(S) = {} THEN Made(add_ref_vt(add_ref_box(S, p.m_ptr), p.m_vtable),
                                 p.iface, p.m_ptr, p.m_vtable)
    ELSE LET v == Min(FreeVts(S))
         IN  Made(make_shared_vtable(add_ref_box(S, p.m_ptr), v, p.iface,
                                     S.vts[p.m_vtable].slots), p.iface, p.m_ptr, v)

\* The implicit copy constructor: member-wise copy of the two shared_ptr.
any_ptr_copy(S, p) ==
    Made(add_ref_vt(add_ref_box(S, p.m_ptr), p.m_vtable), p.iface, p.m_ptr, p.m_vtable)

\* The implicit destructor: ~m_vtable, then ~m_ptr.
any_ptr_destroy(S, p) == release_box(release_vt(S, p.m_vtable), p.m_ptr)

\* operator bool() const { return m_vtable; }
operator_bool(p) == p.m_vtable # NULL

\* bool operator!() const { return !m_vtable; }
operator_not(p) == ~(p.m_vtable # NULL)

\* A visit over the interface of the any_ptr held as payload, when there is one.
visit_payload(p) ==
    IF p.m_ptr # NULL /\ boxes[p.m_ptr].kind = "any_ptr"
    THEN vtable_reflector_visit(boxes[p.m_ptr].iface)
    ELSE vtable_reflector_visit(p.iface)

\* visit( aptr, v ): vtable_reflector<InterfaceType>::visit( &*aptr, v ).
visit(p) == vtable_reflector_visit(p.iface)

-----------------------------------------------------------------------------
\* A slot call's outcome as the client sees it; the names a visit() passed on.
Returned(out) == [op |-> "invoke", err |-> out.err, ret |-> out.ret, names |-> <<>>]
Visited(ns)   == [op |-> "visit", err |-> "", ret |-> NoVal, names |-> ns]
Rejected(e)   == [op |-> "rejected", err |-> e, ret |-> NoVal, names |-> <<>>]
Quiet         == [op |-> "-", err |-> "", ret |-> NoVal, names |-> <<>>]

Install(h, m) ==
    /\ handles' = [handles EXCEPT ![h] = m.p]
    /\ boxes' = m.heap.boxes
    /\ vts' = m.heap.vts
    /\ objRc' = m.heap.objRc
    /\ objAlive' = m.heap.objAlive

FreeHandle(h) == ~handles[h].live /\ \A g \in Handles : g < h => handles[g].live

Init ==
    /\ \E o \in Objs : sharedObjs = {o}
    /\ handles = [h \in Handles |-> NoHandle]
    /\ boxes = [b \in BoxIds |-> FreeBox]
    /\ vts = [v \in VtIds |-> FreeVt]
    /\ objRc = [o \in Objs |-> IF o \in sharedObjs THEN 1 ELSE 0]
    /\ objAlive = [o \in Objs |-> TRUE]
    /\ objState = [o \in Objs |-> 0]
    /\ callerShare = [o \in Objs |-> o \in sharedObjs]
    /\ last = Quiet

\* any_ptr<I> h;
DefaultConstruct(h, i) ==
    /\ FreeHandle(h)
    /\ FreeVts(Heap) # {}
    /\ Install(h, any_ptr_default(Heap, i))
    /\ last' = Quiet
    /\ UNCHANGED <<sharedObjs, objState, callerShare>>

\* any_ptr<I> h( &obj );
ConstructRaw(h, i, o) ==
    /\ FreeHandle(h)
    /\ o \notin sharedObjs
    /\ binds(i, ObjSelf(o))
    /\ FreeVts(Heap) # {} /\ FreeBoxes(Heap) # {}
    /\ Install(h, any_ptr_from_raw(Heap, i, o))
    /\ last' = Quiet
    /\ UNCHANGED <<sharedObjs, objState, callerShare>>

\* any_ptr<I> h( sp );  -- sp the client's shared_ptr<T>
ConstructShared(h, i, o) ==
    /\ FreeHandle(h)
    /\ o \in sharedObjs /\ callerShare[o]
    /\ binds(i, ObjSelf(o))
    /\ FreeVts(Heap) # {} /\ FreeBoxes(Heap) # {}
    /\ Install(h, any_ptr_from_shared(Heap, i, o))
    /\ last' = Quiet
    /\ UNCHANGED <<sharedObjs, objState, callerShare>>

\* any_ptr<I> h( obj ) where T lacks a member of I: &T::elem is ill-formed, the
\* constructor is rejected where it is written and no any_ptr comes to exist.
ConstructRejected(h, i, o) ==
    /\ FreeHandle(h)
    /\ o \notin sharedObjs \/ callerShare[o]
    /\ ~binds(i, ObjSelf(o))
    /\ last' = Rejected("no_matching_member")
    /\ UNCHANGED <<sharedObjs, handles, boxes, vts, objRc, objAlive, objState, callerShare>>

\* any_ptr<I> h( g );  -- g an any_ptr<OtherInterface>, I a base of OtherInterface
Narrow(h, i, g) ==
    /\ FreeHandle(h)
    /\ handles[g].live
    /\ handles[g].iface # i
    /\ binds(i, deref(handles[g]))
    /\ FreeVts(Heap) # {} /\ FreeBoxes(Heap) # {}
    /\ Install(h, any_ptr_from_any_ptr(Heap, i, handles[g]))
    /\ last' = Quiet
    /\ UNCHANGED <<sharedObjs, objState, callerShare>>

\* any_ptr<I> h( g );  -- g an any_ptr<I>
Copy(h, g) ==
    /\ FreeHandle(h)
    /\ handles[g].live
    /\ Install(h, any_ptr_copy(Heap, handles[g]))
    /\ last' = Quiet
    /\ UNCHANGED <<sharedObjs, objState, callerShare>>

\* h goes out of scope.
Destroy(h) ==
    /\ handles[h].live
    /\ LET S == any_ptr_destroy(Heap, handles[h])
       IN  /\ handles' = [handles EXCEPT ![h] = NoHandle]
           /\ boxes' = S.boxes
           /\ vts' = S.vts
           /\ objRc' = S.objRc
           /\ objAlive' = S.objAlive
    /\ last' = Quiet
    /\ UNCHANGED <<sharedObjs, objState, callerShare>>

\* The client resets its own shared_ptr<T>.
DropShare(o) ==
    /\ o \in sharedObjs /\ callerShare[o]
    /\ callerShare' = [callerShare EXCEPT ![o] = FALSE]
    /\ LET S == release_obj(Heap, o)
       IN  /\ objRc' = S.objRc
           /\ objAlive' = S.objAlive
    /\ last' = Quiet
    /\ UNCHANGED <<sharedObjs, handles, boxes, vts, objState>>

\* h->s( a )
Invoke(h, s, a) ==
    /\ handles[h].live
    /\ s \in vtable_members(handles[h].iface)
    /\ a \in Args(s)
    /\ LET out == mirror_member_call(handles[h].m_vtable, s, a)
       IN  /\ objState' = IF out.obj = 0 THEN objState
                          ELSE [objState EXCEPT ![out.obj] = out.st]
           /\ last' = Returned(out)
    /\ UNCHANGED <<sharedObjs, handles, boxes, vts, objRc, objAlive, callerShare>>

\* h->s = f
Assign(h, s, f) ==
    /\ handles[h].live
    /\ s \in vtable_members(handles[h].iface)
    /\ f \in Functors(s)
    /\ vts' = [vts EXCEPT ![handles[h].m_vtable].slots =
                   mirror_member_assign(@, s, f)]
    /\ last' = Quiet
    /\ UNCHANGED <<sharedObjs, handles, boxes, objRc, objAlive, objState, callerShare>>

\* visit( h, visitor ) with a visitor that records each name it is given.
Visit(h) ==
    /\ handles[h].live
    /\ last' = Visited(visit(handles[h]))
    /\ UNCHANGED <<sharedObjs, handles, boxes, vts, objRc, objAlive, objState, callerShare>>

Next ==
    \/ \E h \in Handles, i \in Interfaces : DefaultConstruct(h, i)
    \/ \E h \in Handles, i \in Interfaces, o \in Objs : ConstructRaw(h, i, o)
    \/ \E h \in Handles, i \in Interfaces, o \in Objs : ConstructShared(h, i, o)
    \/ \E h \in Handles, i \in Interfaces, o \in Objs : ConstructRejected(h, i, o)
    \/ \E h, g \in Handles, i \in Interfaces : Narrow(h, i, g)
    \/ \E h, g \in Handles : Copy(h, g)
    \/ \E h \in Handles : Destroy(h)
    \/ \E o \in Objs : DropShare(o)
    \/ \E h \in Handles, s \in {"name", "add"}, a \in {0, 1, 2} : Invoke(h, s, a)
    \/ \E h \in Handles, s \in {"name", "add"}, f \in {"get_name", "do_add"} : Assign(h, s, f)
    \/ \E h \in Handles : Visit(h)

Spec == Init /\ [][Next]_vars

-----------------------------------------------------------------------------
(* Properties.                                                             *)

Live == {h \in Handles : handles[h].live}

\* The handle was built from an object, or from another handle.
OverObject(p) == p.m_ptr # NULL /\ boxes[p.m_ptr].kind \in {"raw", "shared"}
Narrowed(p)   == p.m_ptr # NULL /\ boxes[p.m_ptr].kind = "any_ptr"

\* The shared object a payload keeps alive, through any_ptr copies held as
\* payload; 0 when there is none.
RECURSIVE SharedPayload(_)
SharedPayload(b) ==
    IF b = NULL THEN 0
    ELSE IF boxes[b].kind = "shared" THEN boxes[b].obj
    ELSE IF boxes[b].kind = "any_ptr" THEN SharedPayload(boxes[b].m_ptr)
    ELSE 0

Holders(o) == {h \in Live : SharedPayload(handles[h].m_ptr) = o}

\* The functor in slot s of vtable v was put there by a client assignment.
Reassigned(v, s) == vts[v].slots[s].on = "fn"

\* Slot s of vtable v ends, through the vtables it delegates to, in an empty
\* functor.
RECURSIVE Unbound(_, _)
Unbound(v, s) ==
    LET d == vts[v].slots[s]
    IN  IF d.on = "none" THEN TRUE
        ELSE IF d.on = "vt" THEN Unbound(d.tgt, d.mem)
        ELSE FALSE

Untouched == UNCHANGED <<sharedObjs, handles, boxes, vts, objRc, objAlive, objState, callerShare>>

\* C1: the validity check of a handle is true exactly when the handle was
\* given an object; a default-constructed handle (and a copy of one) reports
\* false from operator bool and true from operator!.
C1_ValidIffObjectBound ==
    \A h \in Live :
        /\ operator_bool(handles[h]) <=> handles[h].m_ptr # NULL
        /\ operator_not(handles[h]) <=> handles[h].m_ptr = NULL

SlotNames == {"name", "add"}
ArgValues == {0, 1, 2}
FunctorNames == {"get_name", "do_add"}

\* C4: invoking a slot with no bound callable throws bad_function_call (the
\* unbound-delegate condition), on every such call, returns nothing, leaves
\* the slot unbound and changes nothing else; slots of a default-constructed
\* handle included.
C4_UnboundSlotThrows ==
    [][\A h \in Handles, s \in SlotNames, a \in ArgValues :
          (Invoke(h, s, a) /\ Unbound(handles[h].m_vtable, s)) =>
              /\ last' = Returned(Threw("bad_function_call"))
              /\ Untouched
              /\ Unbound(handles[h].m_vtable, s)']_vars

\* A call through a default-constructed handle has just thrown.
C4_Witness ==
    /\ last = Returned(Threw("bad_function_call"))
    /\ \E h \in Live : handles[h].m_ptr = NULL /\ Unbound(handles[h].m_vtable, "name")

\* C5: in a handle built from an object, every slot of the interface,
\* inherited ones included, that the client has not reassigned is bound, and
\* invoking it returns what the member of the object returns, with the same
\* effect on the object.
C5_MirrorPassthrough ==
    \A h \in Live :
        OverObject(handles[h]) =>
            LET v == handles[h].m_vtable
                o == boxes[handles[h].m_ptr].obj
            IN  \A s \in vtable_members(handles[h].iface) :
                    ~Reassigned(v, s) =>
                        /\ ~Unbound(v, s)
                        /\ \A a \in Args(s) :
                               mirror_member_call(v, s, a) = member_call(o, s, a)

\* A Calculator handle over an object whose add member has just been called
\* through the handle and changed the object.
C5_Witness ==
    \E h \in Live :
        /\ OverObject(handles[h])
        /\ handles[h].iface = "Calculator"
        /\ \A s \in SlotNames : ~Reassigned(handles[h].m_vtable, s)
        /\ objState[boxes[handles[h].m_ptr].obj] # 0
        /\ last = Returned([err |-> "", ret |-> NumVal(objState[boxes[handles[h].m_ptr].obj]),
                            obj |-> 0, st |-> 0])

\* The declared order of each interface's slots, the base's first.
Declared(i) == IF i = "Calculator" THEN <<"name", "add">> ELSE <<"name">>

\* C6: visit(handle, visitor) calls the visitor once per slot of the handle's
\* interface, in declared order with the base's slots first, and for no other
\* slot; a handle narrowed to the base visits the base's slots only.
C6_VisitOncePerSlot ==
    [][\A h \in Handles :
          Visit(h) =>
              /\ last'.names = Declared(handles[h].iface)
              /\ Len(last'.names) = Cardinality(DOMAIN vts[handles[h].m_vtable].slots)
              /\ \A k \in 1..Len(last'.names) :
                     last'.names[k] \in DOMAIN vts[handles[h].m_vtable].slots]_vars

\* A visit has passed name, then add.
C6_Witness ==
    /\ last.op = "visit"
    /\ last.names = <<"name", "add">>
    /\ \E h \in Live : Narrowed(handles[h])

C8_AssignReplacesOneSlot ==
    [][\A h \in Handles, s \in SlotNames, f \in FunctorNames :
          Assign(h, s, f) =>
              LET v == handles[h].m_vtable
              IN  /\ \A a \in Args(s) : mirror_member_call(v, s, a)' = functor_call(f, a)
                  /\ DOMAIN vts'[v].slots = DOMAIN vts[v].slots
                  /\ \A s2 \in DOMAIN vts[v].slots \ {s} :
                         vts'[v].slots[s2] = vts[v].slots[s2]
                  /\ \A w \in VtIds \ {v} : vts'[w] = vts[w]
                  /\ UNCHANGED <<handles, boxes, objRc, objAlive, objState>>]_vars

\* A Calculator vtable whose name was reassigned and whose add is still bound
\* to the object.
C8_Witness ==
    \E v \in VtIds :
        /\ vts[v].iface = "Calculator"
        /\ vts[v].slots["name"].on = "fn"
        /\ vts[v].slots["add"].on = "obj"

\* Some constructor other than the copy constructor builds handle h.
Constructs(h) ==
    \/ \E i \in Interfaces : DefaultConstruct(h, i)
    \/ \E i \in Interfaces, o \in Objs : ConstructRaw(h, i, o) \/ ConstructShared(h, i, o)
    \/ \E i \in Interfaces, g \in Handles : Narrow(h, i, g)

\* C9 as stated: every handle owns a vtable instance of its own, so that
\* assigning a slot through one handle leaves the functors reached through
\* every other handle as they were.
C9_VtableNeverShared ==
    [][\A h \in Handles, s \in SlotNames, f \in FunctorNames :
          Assign(h, s, f) =>
              \A g \in Live \ {h} :
                  /\ handles[g].m_vtable # handles[h].m_vtable
                  /\ vts'[handles[g].m_vtable].slots = vts[handles[g].m_vtable].slots]_vars

\* C9 (amended): a vtable instance is built fresh by every constructor except
\* the copy constructor; a copy shares the vtable instance of the handle it
\* was copied from, and a slot assigned through either is the callable both
\* invoke.  Only copies share a vtable instance.
C9_CopiesShareVtable ==
    [][/\ \A h, g \in Handles :
              Copy(h, g) =>
                  /\ handles'[h].m_vtable = handles[g].m_vtable
                  /\ handles'[h].m_ptr = handles[g].m_ptr
                  /\ vts'[handles[g].m_vtable].slots = vts[handles[g].m_vtable].slots
       /\ \A h \in Handles :
              Constructs(h) =>
                  \A g \in Live : handles[g].m_vtable # handles'[h].m_vtable
       /\ \A h \in Handles, s \in SlotNames, f \in FunctorNames :
              Assign(h, s, f) =>
                  \A g \in Live :
                      handles[g].m_vtable = handles[h].m_vtable =>
                          \A a \in Args(s) :
                              mirror_member_call(handles[g].m_vtable, s, a)' = functor_call(f, a)
      ]_vars

\* Two handles, one a copy of the other, over an object; the name slot of
\* the vtable they share has been reassigned.
C9_Witness ==
    \E h, g \in Live :
        /\ h # g
        /\ handles[h].m_vtable = handles[g].m_vtable
        /\ OverObject(handles[h])
        /\ Reassigned(handles[h].m_vtable, "name")

====
